---- MODULE Spec2Model ----
(***************************************************************************)
(* Model of the Windows COM port backend, src/sys/windows/com.rs.          *)
(*                                                                         *)
(* A SerialPort value owns a native HANDLE and caches its read timeout,    *)
(* its write timeout and its port name.  The device keeps the control      *)
(* block (DCB) and the COMMTIMEOUTS; every native call may fail.           *)
(***************************************************************************)
EXTENDS Integers, Sequences, FiniteSets, TLC

\* ------------------------------------------------------------------ bounds
MaxPorts == 2      \* SerialPort values constructed in one behaviour
MaxDescs == 3      \* native descriptors allocated in one behaviour
MaxBuf   == 2      \* length of the buffer handed to read

\* --------------------------------------------------------- option / result
None == <<>>
Some(x) == <<x>>
IsSome(o) == o # None
Unwrap(o) == o[1]

Ok(v) == [ok |-> TRUE, val |-> v, kind |-> "none"]
Err(k) == [ok |-> FALSE, val |-> <<>>, kind |-> k]

\* ----------------------------------------------------------------- handles
INVALID_HANDLE_VALUE == -1
NullHandle == 0
Descs == 1..MaxDescs
PortIds == 1..MaxPorts
PortPath == "COM1"

\* ------------------------------------------------------------ native error
\* super::error::last_os_error(): the native error code mapped to the
\* domain taxonomy (NoDevice when the device is absent or access is denied,
\* Io for any other native failure).
OsErrors == {"ERROR_FILE_NOT_FOUND", "ERROR_GEN_FAILURE"}
last_os_error(code) ==
    IF code \in {"ERROR_FILE_NOT_FOUND", "ERROR_PATH_NOT_FOUND", "ERROR_ACCESS_DENIED"}
    THEN Err("NoDevice")
    ELSE Err("Io")

\* ---------------------------------------------------------------- Duration
\* std::time::Duration: whole seconds and sub-second nanoseconds.
Duration(s, n) == [secs |-> s, nanos |-> n]
Durations == { Duration(0, 2500000) }
Intents == {None} \cup { Some(d) : d \in Durations }

\* Durations at the edges of the conversion to milliseconds: zero, just under
\* and exactly one millisecond, 2^16 ms, 2^32 - 1 ms and its neighbours.
ConvDurations ==
    { Duration(0, 0), Duration(0, 999999), Duration(0, 1000000), Duration(0, 2500000),
      Duration(65, 536000000), Duration(4294967, 295999999),
      Duration(4294967, 296000000), Duration(4294968, 0) }
ConvIntents == {None} \cup { Some(d) : d \in ConvDurations }

\* A DWORD is kept as two 16-bit halves: its value is hi * 2^16 + lo.
DWord(n) == [hi |-> n \div 65536, lo |-> n % 65536]
DWORD_MAX == [hi |-> 65535, lo |-> 65535]

\* DWORD::try_from(duration.as_millis()): None when the millisecond count
\* does not fit in 32 bits (2^32 - 1 = 4294967 s + 295 ms).
subsec_millis(d) == d.nanos \div 1000000
FitsDWord(d) ==
    \/ d.secs < 4294967
    \/ d.secs = 4294967 /\ subsec_millis(d) <= 295
as_millis_dword(d) ==
    LET low == (d.secs % 65536) * 1000 + subsec_millis(d)
    IN  [hi |-> (d.secs \div 65536) * 1000 + low \div 65536, lo |-> low % 65536]

\* timeout_ms without the .max(1): a duration under one millisecond gives 0
timeout_ms_NoFloor(intent) ==
    IF intent = None THEN DWord(0)
    ELSE LET d == Unwrap(intent)
         IN  IF ~FitsDWord(d) THEN DWORD_MAX ELSE as_millis_dword(d)

\* .map_or(DWORD::MAX, |timeout| timeout.max(1)), and 0 for None.
timeout_ms(intent) ==
    IF intent = None THEN DWord(0)
    ELSE LET d == Unwrap(intent)
         IN  IF ~FitsDWord(d) THEN DWORD_MAX
             ELSE IF as_millis_dword(d) = DWord(0) THEN DWord(1)
             ELSE as_millis_dword(d)

COMMTIMEOUTS(read_timeout, write_timeout) ==
    [ ReadIntervalTimeout         |-> DWord(1),
      ReadTotalTimeoutMultiplier  |-> DWord(0),
      ReadTotalTimeoutConstant    |-> timeout_ms(read_timeout),
      WriteTotalTimeoutMultiplier |-> DWord(0),
      WriteTotalTimeoutConstant   |-> timeout_ms(write_timeout) ]


\* --------------------------------------------------- portable configuration
DataBitsValues    == {"Five", "Six", "Seven", "Eight"}
ParityValues      == {"None", "Odd", "Even"}
StopBitsValues    == {"One", "Two"}
FlowControlValues == {"None", "Software", "Hardware"}
BaudRates         == {9600, 115200}

\* winbase.h encodings of the DCB fields
NOPARITY     == 0
ODDPARITY    == 1
EVENPARITY   == 2
ONESTOPBIT   == 0
TWOSTOPBITS  == 2

\* --------------------------------------------- dcb module (not in src/)
\* crate::sys::windows::dcb: each setter maps a portable value to exactly one
\* native field value; set_flow_control clears the flags of the modes that
\* are not selected.
dcb_set_baud_rate(d, baud_rate) == [d EXCEPT !.BaudRate = baud_rate]

dcb_set_data_bits(d, data_bits) ==
    [d EXCEPT !.ByteSize = CASE data_bits = "Five"  -> 5
                             [] data_bits = "Six"   -> 6
                             [] data_bits = "Seven" -> 7
                             [] data_bits = "Eight" -> 8]

dcb_set_parity(d, parity) ==
    [d EXCEPT !.Parity = CASE parity = "None" -> NOPARITY
                           [] parity = "Odd"  -> ODDPARITY
                           [] parity = "Even" -> EVENPARITY]

dcb_set_stop_bits(d, stop_bits) ==
    [d EXCEPT !.StopBits = CASE stop_bits = "One" -> ONESTOPBIT
                             [] stop_bits = "Two" -> TWOSTOPBITS]

dcb_set_flow_control(d, flow_control) ==
    CASE flow_control = "None" ->
           [d EXCEPT !.fOutxCtsFlow = 0, !.fRtsControl = 0, !.fOutX = 0, !.fInX = 0]
      [] flow_control = "Software" ->
           [d EXCEPT !.fOutxCtsFlow = 0, !.fRtsControl = 0, !.fOutX = 1, !.fInX = 1]
      [] flow_control = "Hardware" ->
           [d EXCEPT !.fOutxCtsFlow = 1, !.fRtsControl = 1, !.fOutX = 0, !.fInX = 0]

\* ------------------------------------------- getters: decoding the DCB
\* Each is the match of the getter on the block get_dcb returned.
baud_rate(d) == Ok(d.BaudRate)

data_bits(d) ==
    CASE d.ByteSize = 5 -> Ok("Five")
      [] d.ByteSize = 6 -> Ok("Six")
      [] d.ByteSize = 7 -> Ok("Seven")
      [] d.ByteSize = 8 -> Ok("Eight")
      [] OTHER -> Err("Unknown")

\* parity with the arms for odd and even exchanged
parity_OddEvenSwapped(d) ==
    CASE d.Parity = ODDPARITY  -> Ok("Even")
      [] d.Parity = EVENPARITY -> Ok("Odd")
      [] d.Parity = NOPARITY   -> Ok("None")
      [] OTHER -> Err("Unknown")

parity(d) ==
    CASE d.Parity = ODDPARITY  -> Ok("Odd")
      [] d.Parity = EVENPARITY -> Ok("Even")
      [] d.Parity = NOPARITY   -> Ok("None")
      [] OTHER -> Err("Unknown")

\* stop_bits falling back to one stop bit for any other code
stop_bits_DefaultsToOne(d) ==
    CASE d.StopBits = TWOSTOPBITS -> Ok("Two")
      [] OTHER -> Ok("One")

stop_bits(d) ==
    CASE d.StopBits = TWOSTOPBITS -> Ok("Two")
      [] d.StopBits = ONESTOPBIT  -> Ok("One")
      [] OTHER -> Err("Unknown")

\* flow_control testing the XON/XOFF flags before the handshake flags
flow_control_SoftwareFirst(d) ==
    IF d.fOutX # 0 \/ d.fInX # 0 THEN Ok("Software")
    ELSE IF d.fOutxCtsFlow # 0 \/ d.fRtsControl # 0 THEN Ok("Hardware")
    ELSE Ok("None")

flow_control(d) ==
    IF d.fOutxCtsFlow # 0 \/ d.fRtsControl # 0 THEN Ok("Hardware")
    ELSE IF d.fOutX # 0 \/ d.fInX # 0 THEN Ok("Software")
    ELSE Ok("None")

\* ------------------------------------------------------------------ state
VARIABLES
    ports,         \* sequence of SerialPort values, indexed by construction order
    life,          \* per SerialPort: "live", "dropped" or "forgotten" (mem::forget)
    origin,        \* per SerialPort: the port it was cloned from, 0 otherwise
    nextDesc,      \* next descriptor value the operating system hands out
    openHandles,   \* descriptors currently open on the device
    closeCalls,    \* per descriptor: number of CloseHandle calls made on it
    rawHeld,       \* descriptors the caller holds raw after into_raw_handle
    dcb,           \* the device's control block
    commTimeouts,  \* the device's COMMTIMEOUTS
    pending,       \* last successful setter not yet followed by another commit
    calls,         \* per SerialPort: the setter call running on it step by step
    last           \* the call that returned last, with its result

vars == <<ports, life, origin, nextDesc, openHandles, closeCalls, rawHeld,
          dcb, commTimeouts, pending, calls, last>>

LivePorts == { p \in 1..Len(ports) : life[p] = "live" }

\* arg is the timeout intent handed to a timeout setter or the length of the
\* buffer handed to write (empty for the other calls); native names the native call that failed, "ok" when none did
Call(op, port, arg, native, res) ==
    [op |-> op, port |-> port, arg |-> arg, native |-> native, res |-> res]

DefaultDcb ==
    [BaudRate |-> 9600, ByteSize |-> 8, Parity |-> NOPARITY, StopBits |-> ONESTOPBIT,
     fOutxCtsFlow |-> 0, fRtsControl |-> 0, fOutX |-> 0, fInX |-> 0]

Init ==
    /\ ports = <<>>
    /\ life = <<>>
    /\ origin = <<>>
    /\ nextDesc = 1
    /\ openHandles = {}
    /\ closeCalls = [d \in Descs |-> 0]
    /\ rawHeld = {}
    /\ dcb = DefaultDcb
    /\ commTimeouts = COMMTIMEOUTS(None, None)
    /\ pending = None
    /\ calls = [p \in PortIds |-> None]
    /\ last = Call("none", 0, <<>>, "ok", Ok(<<>>))

\* ------------------------------------------------------------ SerialPort
open_from_raw_handle(handle) ==
    [handle |-> handle, read_timeout |-> None, write_timeout |-> None, port_name |-> None]

\* A value that is gone (dropped or forgotten): only the handle it held is
\* remembered, for the accounting of CloseHandle calls.
Gone(com) == open_from_raw_handle(com.handle)

\* set_timeouts with the cache written before the native call is made
set_timeouts_CacheFirst(com, read_timeout, write_timeout, native_ok, code) ==
    [com |-> [com EXCEPT !.read_timeout = read_timeout,
                         !.write_timeout = write_timeout],
     device |-> IF native_ok THEN COMMTIMEOUTS(read_timeout, write_timeout)
                ELSE commTimeouts,
     res |-> IF native_ok THEN Ok(<<>>) ELSE last_os_error(code)]

\* set_timeouts on the value com: native_ok is the outcome of SetCommTimeouts.
\* Gives the value afterwards, the device's timeouts afterwards, and the
\* result of the call.
set_timeouts(com, read_timeout, write_timeout, native_ok, code) ==
    IF ~native_ok
    THEN [com |-> com, device |-> commTimeouts, res |-> last_os_error(code)]
    ELSE [com |-> [com EXCEPT !.read_timeout = read_timeout,
                              !.write_timeout = write_timeout],
          device |-> COMMTIMEOUTS(read_timeout, write_timeout),
          res |-> Ok(<<>>)]

\* A native call on handle h can succeed only while h is an open descriptor.
CanSucceed(h) == h \in openHandles

\* CloseHandle(h)
CloseHandle(h) ==
    /\ openHandles' = openHandles \ {h}
    /\ closeCalls' = IF h \in Descs THEN [closeCalls EXCEPT ![h] = @ + 1] ELSE closeCalls


\* SerialPortBuilder: the configuration handed to open
Builder(baud, data, par, stop, flow, rt, wt) ==
    [baud_rate |-> baud, data_bits |-> data, parity |-> par, stop_bits |-> stop,
     flow_control |-> flow, read_timeout |-> rt, write_timeout |-> wt]
Builders ==
    { Builder(115200, "Seven", "Even", "Two", "Hardware", Some(Duration(0, 2500000)), None),
      Builder(9600, "Five", "Odd", "One", "Software", None, Some(Duration(0, 2500000))) }

\* open leaving the parity of the block as the device had it
open_dcb_SkipsParity(d, builder) ==
    dcb_set_flow_control(
      dcb_set_stop_bits(
        dcb_set_data_bits(
          dcb_set_baud_rate(d, builder.baud_rate),
          builder.data_bits),
        builder.stop_bits),
      builder.flow_control)

\* The control block open commits: the block read from the device with the
\* five builder settings written into it.
open_dcb(d, builder) ==
    dcb_set_flow_control(
      dcb_set_stop_bits(
        dcb_set_parity(
          dcb_set_data_bits(
            dcb_set_baud_rate(d, builder.baud_rate),
            builder.data_bits),
          builder.parity),
        builder.stop_bits),
      builder.flow_control)

NewPort(com, state, from) ==
    /\ ports' = Append(ports, com)
    /\ life' = Append(life, state)
    /\ origin' = Append(origin, from)

\* SerialPort::open.  stage names the native call that fails, or "ok".
\* CreateFileW asks for exclusive access (share mode 0): it can succeed only
\* while no descriptor is open on the device.
Open(builder, stage, code) ==
    /\ pending' = IF stage \in {"SetCommTimeouts", "ok"} THEN None ELSE pending
    /\ rawHeld' = rawHeld
    /\ calls' = calls
    /\ IF stage = "CreateFileW"
       THEN /\ last' = Call("open", 0, <<>>, stage, last_os_error(code))
            /\ UNCHANGED <<ports, life, origin, nextDesc, openHandles, closeCalls,
                           dcb, commTimeouts>>
       ELSE /\ openHandles = {}
            /\ nextDesc <= MaxDescs
            /\ nextDesc' = nextDesc + 1
            /\ LET handle == nextDesc
                   com == open_from_raw_handle(handle)
                   st == set_timeouts(com, builder.read_timeout, builder.write_timeout,
                                      stage = "ok", code)
               IN  CASE stage \in {"get_dcb", "set_dcb"} ->
                          \* `?` returns before a SerialPort owns the handle
                          /\ last' = Call("open", 0, <<>>, stage, last_os_error(code))
                          /\ openHandles' = {handle}
                          /\ UNCHANGED <<ports, life, origin, closeCalls, dcb, commTimeouts>>
                     [] stage = "SetCommTimeouts" ->
                          \* com is dropped when `?` returns the error
                          /\ Len(ports) < MaxPorts
                          /\ dcb' = open_dcb(dcb, builder)
                          /\ commTimeouts' = st.device
                          /\ NewPort(Gone(st.com), "dropped", 0)
                          /\ CloseHandle(handle)
                          /\ last' = Call("open", 0, <<>>, stage, st.res)
                     [] stage = "ok" ->
                          /\ Len(ports) < MaxPorts
                          /\ dcb' = open_dcb(dcb, builder)
                          /\ commTimeouts' = st.device
                          /\ NewPort([st.com EXCEPT !.port_name = Some(PortPath)], "live", 0)
                          /\ openHandles' = {handle}
                          /\ closeCalls' = closeCalls
                          /\ last' = Call("open", Len(ports) + 1, <<>>, stage, Ok(Len(ports) + 1))

OpenStages == {"CreateFileW", "get_dcb", "set_dcb", "SetCommTimeouts", "ok"}


\* What DuplicateHandle leaves in its out-parameter when it fails is not
\* specified: the caller's initial INVALID_HANDLE_VALUE untouched, or the
\* null handle the system writes before it validates the request.
FailedDuplicateOut == {INVALID_HANDLE_VALUE, NullHandle}

\* try_clone handing out the source's own handle instead of the duplicate
try_clone_SameHandle(self, cloned_handle, code) ==
    IF cloned_handle # INVALID_HANDLE_VALUE
    THEN Ok([handle |-> self.handle,
             port_name |-> self.port_name,
             read_timeout |-> self.read_timeout,
             write_timeout |-> self.write_timeout])
    ELSE last_os_error(code)

\* The tail of try_clone: it looks at the out-parameter only.
try_clone(self, cloned_handle, code) ==
    IF cloned_handle # INVALID_HANDLE_VALUE
    THEN Ok([handle |-> cloned_handle,
             port_name |-> self.port_name,
             read_timeout |-> self.read_timeout,
             write_timeout |-> self.write_timeout])
    ELSE last_os_error(code)

\* SerialPort::try_clone on port p.  dup_ok is what DuplicateHandle returns,
\* out is what it leaves in cloned_handle when it fails.
TryClone(p, dup_ok, out, code) ==
    /\ p \in LivePorts
    /\ dup_ok => CanSucceed(ports[p].handle) /\ nextDesc <= MaxDescs
    /\ LET cloned_handle == IF dup_ok THEN nextDesc ELSE out
           res == try_clone(ports[p], cloned_handle, code)
       IN  /\ nextDesc' = IF dup_ok THEN nextDesc + 1 ELSE nextDesc
           /\ openHandles' = IF dup_ok THEN openHandles \cup {cloned_handle}
                             ELSE openHandles
           /\ IF res.ok
              THEN /\ Len(ports) < MaxPorts
                   /\ NewPort(res.val, "live", p)
                   /\ last' = Call("try_clone", p, <<>>,
                                   IF dup_ok THEN "ok" ELSE "DuplicateHandle",
                                   Ok(Len(ports) + 1))
              ELSE /\ UNCHANGED <<ports, life, origin, calls>>
                   /\ last' = Call("try_clone", p, <<>>, "DuplicateHandle", res)
    /\ UNCHANGED <<closeCalls, rawHeld, dcb, commTimeouts, pending, calls>>

\* The timeout setters with one cache shared by every live SerialPort
SetTimeout_SharedCache(p, op, intent, native_ok, st) ==
    /\ ports' = [q \in DOMAIN ports |->
                   IF life[q] = "live"
                   THEN [ports[q] EXCEPT !.read_timeout = st.com.read_timeout,
                                         !.write_timeout = st.com.write_timeout]
                   ELSE ports[q]]
    /\ commTimeouts' = st.device
    /\ last' = Call(op, p, intent, IF native_ok THEN "ok" ELSE "SetCommTimeouts", st.res)
    /\ UNCHANGED <<life, origin, nextDesc, openHandles, closeCalls, rawHeld, dcb, pending, calls>>

\* The timeout setters: both go through set_timeouts with the cached value
\* of the other direction.
SetTimeout(p, op, intent, native_ok, st) ==
    /\ ports' = [ports EXCEPT ![p] = st.com]
    /\ commTimeouts' = st.device
    /\ last' = Call(op, p, intent, IF native_ok THEN "ok" ELSE "SetCommTimeouts", st.res)
    /\ UNCHANGED <<life, origin, nextDesc, openHandles, closeCalls, rawHeld, dcb, pending, calls>>

\* set_read_timeout passing no write timeout instead of the cached one
SetReadTimeout_ClearsWrite(p, read_timeout, native_ok, code) ==
    /\ p \in LivePorts
    /\ native_ok => CanSucceed(ports[p].handle)
    /\ SetTimeout(p, "set_read_timeout", read_timeout, native_ok,
                  set_timeouts(ports[p], read_timeout, None, native_ok, code))

SetReadTimeout(p, read_timeout, native_ok, code) ==
    /\ p \in LivePorts
    /\ native_ok => CanSucceed(ports[p].handle)
    /\ SetTimeout(p, "set_read_timeout", read_timeout, native_ok,
                  set_timeouts(ports[p], read_timeout, ports[p].write_timeout,
                               native_ok, code))

SetWriteTimeout(p, write_timeout, native_ok, code) ==
    /\ p \in LivePorts
    /\ native_ok => CanSucceed(ports[p].handle)
    /\ SetTimeout(p, "set_write_timeout", write_timeout, native_ok,
                  set_timeouts(ports[p], ports[p].read_timeout, write_timeout,
                               native_ok, code))

\* Drop for SerialPort: CloseHandle(self.handle), its result ignored.
Drop(p) ==
    /\ p \in LivePorts
    /\ life' = [life EXCEPT ![p] = "dropped"]
    /\ ports' = [ports EXCEPT ![p] = Gone(@)]
    /\ CloseHandle(ports[p].handle)
    /\ last' = Call("drop", p, <<>>, "ok", Ok(<<>>))
    /\ UNCHANGED <<origin, nextDesc, rawHeld, dcb, commTimeouts, pending, calls>>

\* into_raw_handle without mem::forget: the destructor runs on return
IntoRawHandle_RunsDrop(p) ==
    /\ p \in LivePorts
    /\ life' = [life EXCEPT ![p] = "forgotten"]
    /\ ports' = [ports EXCEPT ![p] = Gone(@)]
    /\ rawHeld' = rawHeld \cup ({ports[p].handle} \cap Descs)
    /\ CloseHandle(ports[p].handle)
    /\ last' = Call("into_raw_handle", p, <<>>, "ok", Ok(ports[p].handle))
    /\ UNCHANGED <<origin, nextDesc, dcb, commTimeouts, pending, calls>>

\* IntoRawHandle: mem::forget(self), the handle goes to the caller still open.
IntoRawHandle(p) ==
    /\ p \in LivePorts
    /\ life' = [life EXCEPT ![p] = "forgotten"]
    /\ ports' = [ports EXCEPT ![p] = Gone(@)]
    /\ rawHeld' = rawHeld \cup ({ports[p].handle} \cap Descs)
    /\ last' = Call("into_raw_handle", p, <<>>, "ok", Ok(ports[p].handle))
    /\ UNCHANGED <<origin, nextDesc, openHandles, closeCalls, dcb, commTimeouts, pending, calls>>

\* from_raw_handle bringing the device's timeouts in line with the new cache
FromRawHandle_ResetsDevice(handle) ==
    /\ handle \in rawHeld
    /\ Len(ports) < MaxPorts
    /\ NewPort(open_from_raw_handle(handle), "live", 0)
    /\ rawHeld' = rawHeld \ {handle}
    /\ commTimeouts' = COMMTIMEOUTS(None, None)
    /\ last' = Call("from_raw_handle", Len(ports) + 1, <<>>, "ok", Ok(Len(ports) + 1))
    /\ UNCHANGED <<nextDesc, openHandles, closeCalls, dcb, pending, calls>>

\* FromRawHandle (unsafe): the caller passes a live descriptor it owns.
FromRawHandle(handle) ==
    /\ handle \in rawHeld
    /\ Len(ports) < MaxPorts
    /\ NewPort(open_from_raw_handle(handle), "live", 0)
    /\ rawHeld' = rawHeld \ {handle}
    /\ last' = Call("from_raw_handle", Len(ports) + 1, <<>>, "ok", Ok(Len(ports) + 1))
    /\ UNCHANGED <<nextDesc, openHandles, closeCalls, dcb, commTimeouts, pending, calls>>

\* io::Error::last_os_error(): the raw native error
io_last_os_error(code) == [ok |-> FALSE, val |-> <<>>, kind |-> code]

\* read passing a transfer of zero bytes on as success
read_ZeroIsOk(ret, len, code) ==
    IF ret = 0 THEN io_last_os_error(code) ELSE Ok(len)

\* The result of read from what ReadFile returned (ret) and transferred (len)
read(ret, len, code) ==
    IF ret = 0 THEN io_last_os_error(code)
    ELSE IF len # 0 THEN Ok(len)
    ELSE Err("TimedOut")

\* io::Read::read on port p with a buffer of buf_len bytes.  ReadFile
\* transfers at most the number of bytes asked for.
Read(p, buf_len, ret, len, code) ==
    /\ p \in LivePorts
    /\ ret # 0 => CanSucceed(ports[p].handle)
    /\ len <= buf_len
    /\ ret = 0 => len = 0
    /\ last' = Call("read", p, <<>>, IF ret # 0 THEN "ok" ELSE "ReadFile", read(ret, len, code))
    /\ UNCHANGED <<ports, life, origin, nextDesc, openHandles, closeCalls, rawHeld,
                   dcb, commTimeouts, pending, calls>>

\* write reporting a transfer of zero bytes as a timeout, the way read does
write_ZeroIsTimedOut(ret, len, code) ==
    IF ret = 0 THEN io_last_os_error(code)
    ELSE IF len # 0 THEN Ok(len)
    ELSE Err("TimedOut")

\* The result of write from what WriteFile returned (ret) and accepted (len)
write(ret, len, code) ==
    IF ret = 0 THEN io_last_os_error(code) ELSE Ok(len)

\* io::Write::write on port p with a buffer of buf_len bytes.  WriteFile
\* accepts at most the number of bytes handed to it; the call record keeps
\* the buffer length as its argument.
Write(p, buf_len, ret, len, code) ==
    /\ p \in LivePorts
    /\ ret # 0 => CanSucceed(ports[p].handle)
    /\ len <= buf_len
    /\ ret = 0 => len = 0
    /\ last' = Call("write", p, <<buf_len>>, IF ret # 0 THEN "ok" ELSE "WriteFile",
                    write(ret, len, code))
    /\ UNCHANGED <<ports, life, origin, nextDesc, openHandles, closeCalls, rawHeld,
                   dcb, commTimeouts, pending, calls>>

Next ==
    \/ \E b \in Builders, stage \in OpenStages, code \in OsErrors : Open(b, stage, code)
    \/ \E p \in PortIds, dup_ok \in BOOLEAN, out \in FailedDuplicateOut, code \in OsErrors :
          TryClone(p, dup_ok, out, code)
    \/ \E p \in PortIds, t \in Intents, native_ok \in BOOLEAN, code \in OsErrors :
          SetReadTimeout(p, t, native_ok, code)
    \/ \E p \in PortIds, t \in Intents, native_ok \in BOOLEAN, code \in OsErrors :
          SetWriteTimeout(p, t, native_ok, code)
    \/ \E p \in PortIds : Drop(p)
    \/ \E p \in PortIds : IntoRawHandle(p)
    \/ \E h \in Descs : FromRawHandle(h)

Spec == Init /\ [][Next]_vars

\* The byte stream: reads and writes on handles that are opened, cloned and
\* dropped
NextIo ==
    \/ \E b \in Builders, stage \in OpenStages, code \in OsErrors : Open(b, stage, code)
    \/ \E p \in PortIds, dup_ok \in BOOLEAN, out \in FailedDuplicateOut, code \in OsErrors :
          TryClone(p, dup_ok, out, code)
    \/ \E p \in PortIds : Drop(p)
    \/ \E p \in PortIds, buf_len \in 0..MaxBuf, ret \in {0, 1}, len \in 0..MaxBuf,
          code \in OsErrors : Read(p, buf_len, ret, len, code)
    \/ \E p \in PortIds, buf_len \in 0..MaxBuf, ret \in {0, 1}, len \in 0..MaxBuf,
          code \in OsErrors : Write(p, buf_len, ret, len, code)

SpecIo == Init /\ [][NextIo]_vars

\* The timeout conversion: the timeout setters called with durations at the
\* edges of the conversion
NextConv ==
    \/ \E b \in Builders, stage \in OpenStages, code \in OsErrors : Open(b, stage, code)
    \/ \E p \in PortIds, t \in ConvIntents, native_ok \in BOOLEAN, code \in OsErrors :
          SetReadTimeout(p, t, native_ok, code)
    \/ \E p \in PortIds, t \in ConvIntents, native_ok \in BOOLEAN, code \in OsErrors :
          SetWriteTimeout(p, t, native_ok, code)

SpecConv == Init /\ [][NextConv]_vars


\* ------------------------------------------------- configuration accessors
\* A getter answering from a per-handle copy of the settings: a handle other
\* than the one that committed last still sees the block as it first was.
Getter_PerHandleCopy(p, op, decoded, native_ok, code) ==
    /\ p \in LivePorts
    /\ native_ok => CanSucceed(ports[p].handle)
    /\ LET stale == CASE op = "baud_rate" -> baud_rate(DefaultDcb)
                       [] op = "data_bits" -> data_bits(DefaultDcb)
                       [] op = "parity" -> parity(DefaultDcb)
                       [] op = "stop_bits" -> stop_bits(DefaultDcb)
                       [] OTHER -> flow_control(DefaultDcb)
       IN  last' = Call(op, p, <<>>, IF native_ok THEN "ok" ELSE "get_dcb",
                        IF ~native_ok THEN last_os_error(code)
                        ELSE IF pending # None /\ Unwrap(pending).port # p THEN stale
                        ELSE decoded)
    /\ UNCHANGED <<ports, life, origin, nextDesc, openHandles, closeCalls, rawHeld,
                   dcb, commTimeouts, pending, calls>>

\* A getter on port p: get_dcb (GetCommState) may fail, else the block is
\* decoded.
Getter(p, op, decoded, native_ok, code) ==
    /\ p \in LivePorts
    /\ native_ok => CanSucceed(ports[p].handle)
    /\ last' = Call(op, p, <<>>, IF native_ok THEN "ok" ELSE "get_dcb",
                    IF native_ok THEN decoded ELSE last_os_error(code))
    /\ UNCHANGED <<ports, life, origin, nextDesc, openHandles, closeCalls, rawHeld,
                   dcb, commTimeouts, pending, calls>>

BaudRate(p, native_ok, code)    == Getter(p, "baud_rate", baud_rate(dcb), native_ok, code)
DataBits(p, native_ok, code)    == Getter(p, "data_bits", data_bits(dcb), native_ok, code)
Parity(p, native_ok, code)      == Getter(p, "parity", parity(dcb), native_ok, code)
StopBits(p, native_ok, code)    == Getter(p, "stop_bits", stop_bits(dcb), native_ok, code)
FlowControl(p, native_ok, code) == Getter(p, "flow_control", flow_control(dcb), native_ok, code)

\* A setter on port p: read the whole block, change it locally, commit the
\* whole block.  stage names the native call that fails, or "ok".
SetterStages == {"get_dcb", "set_dcb", "ok"}
Setter(p, op, field, value, changed, stage, code) ==
    /\ p \in LivePorts
    /\ stage = "ok" => CanSucceed(ports[p].handle)
    /\ dcb' = IF stage = "ok" THEN changed ELSE dcb
    /\ pending' = IF stage = "ok"
                  THEN Some([field |-> field, value |-> value, port |-> p])
                  ELSE pending
    /\ last' = Call(op, p, <<>>, stage, IF stage = "ok" THEN Ok(<<>>) ELSE last_os_error(code))
    /\ UNCHANGED <<ports, life, origin, nextDesc, openHandles, closeCalls, rawHeld,
                   commTimeouts, calls>>

SetBaudRate(p, v, stage, code) ==
    Setter(p, "set_baud_rate", "baud_rate", v, dcb_set_baud_rate(dcb, v), stage, code)
SetDataBits(p, v, stage, code) ==
    Setter(p, "set_data_bits", "data_bits", v, dcb_set_data_bits(dcb, v), stage, code)
SetParity(p, v, stage, code) ==
    Setter(p, "set_parity", "parity", v, dcb_set_parity(dcb, v), stage, code)
SetStopBits(p, v, stage, code) ==
    Setter(p, "set_stop_bits", "stop_bits", v, dcb_set_stop_bits(dcb, v), stage, code)
SetFlowControl(p, v, stage, code) ==
    Setter(p, "set_flow_control", "flow_control", v, dcb_set_flow_control(dcb, v), stage, code)

\* Two values of each setting are written through the handles.
SharedValues ==
    [baud_rate |-> BaudRates, data_bits |-> {"Five", "Seven"}, parity |-> {"Odd", "Even"},
     stop_bits |-> StopBitsValues, flow_control |-> {"Software", "Hardware"}]

\* Values another program may leave in a field of the device's control block
NativeFieldValues ==
    [ByteSize |-> 4..9, Parity |-> 0..3, StopBits |-> 0..2,
     fOutxCtsFlow |-> 0..1, fRtsControl |-> 0..2, fOutX |-> 0..1, fInX |-> 0..1]

\* The device is reconfigured from outside this library.
ExternalReconfigure(field, value) ==
    /\ value \in NativeFieldValues[field]
    /\ value # dcb[field]
    /\ dcb' = [dcb EXCEPT ![field] = value]
    /\ pending' = None
    /\ last' = Call("external", 0, <<>>, "ok", Ok(<<>>))
    /\ UNCHANGED <<ports, life, origin, nextDesc, openHandles, closeCalls, rawHeld,
                   commTimeouts, calls>>

\* The configuration accessors are explored on a port opened with one
\* builder and with one native error code; Spec varies both.
CfgBuilders == { Builder(115200, "Seven", "Even", "Two", "Hardware",
                         Some(Duration(0, 2500000)), None) }
CfgOsErrors == {"ERROR_GEN_FAILURE"}

NextCfg ==
    \/ \E b \in CfgBuilders, stage \in OpenStages, code \in CfgOsErrors : Open(b, stage, code)
    \/ \E field \in DOMAIN NativeFieldValues, value \in 0..9 : ExternalReconfigure(field, value)
    \/ \E p \in PortIds, ok \in BOOLEAN, code \in CfgOsErrors : DataBits(p, ok, code)
    \/ \E p \in PortIds, ok \in BOOLEAN, code \in CfgOsErrors : Parity(p, ok, code)
    \/ \E p \in PortIds, ok \in BOOLEAN, code \in CfgOsErrors : StopBits(p, ok, code)
    \/ \E p \in PortIds, ok \in BOOLEAN, code \in CfgOsErrors : FlowControl(p, ok, code)
    \/ \E p \in PortIds, v \in DataBitsValues, stage \in SetterStages, code \in CfgOsErrors :
          SetDataBits(p, v, stage, code)
    \/ \E p \in PortIds, v \in ParityValues, stage \in SetterStages, code \in CfgOsErrors :
          SetParity(p, v, stage, code)
    \/ \E p \in PortIds, v \in StopBitsValues, stage \in SetterStages, code \in CfgOsErrors :
          SetStopBits(p, v, stage, code)
    \/ \E p \in PortIds, v \in FlowControlValues, stage \in SetterStages, code \in CfgOsErrors :
          SetFlowControl(p, v, stage, code)

SpecCfg == Init /\ [][NextCfg]_vars

\* The five settings seen through a handle and its clones: every getter and
\* every setter on every handle, the device left alone otherwise.
NextShared ==
    \/ \E b \in CfgBuilders, stage \in OpenStages, code \in CfgOsErrors : Open(b, stage, code)
    \/ \E p \in PortIds, dup_ok \in BOOLEAN, out \in FailedDuplicateOut, code \in CfgOsErrors :
          TryClone(p, dup_ok, out, code)
    \/ \E p \in PortIds, ok \in BOOLEAN, code \in CfgOsErrors : BaudRate(p, ok, code)
    \/ \E p \in PortIds, ok \in BOOLEAN, code \in CfgOsErrors : DataBits(p, ok, code)
    \/ \E p \in PortIds, ok \in BOOLEAN, code \in CfgOsErrors : Parity(p, ok, code)
    \/ \E p \in PortIds, ok \in BOOLEAN, code \in CfgOsErrors : StopBits(p, ok, code)
    \/ \E p \in PortIds, ok \in BOOLEAN, code \in CfgOsErrors : FlowControl(p, ok, code)
    \/ \E p \in PortIds, v \in SharedValues.baud_rate, stage \in SetterStages, code \in CfgOsErrors :
          SetBaudRate(p, v, stage, code)
    \/ \E p \in PortIds, v \in SharedValues.data_bits, stage \in SetterStages, code \in CfgOsErrors :
          SetDataBits(p, v, stage, code)
    \/ \E p \in PortIds, v \in SharedValues.parity, stage \in SetterStages, code \in CfgOsErrors :
          SetParity(p, v, stage, code)
    \/ \E p \in PortIds, v \in SharedValues.stop_bits, stage \in SetterStages, code \in CfgOsErrors :
          SetStopBits(p, v, stage, code)
    \/ \E p \in PortIds, v \in SharedValues.flow_control, stage \in SetterStages, code \in CfgOsErrors :
          SetFlowControl(p, v, stage, code)

SpecShared == Init /\ [][NextShared]_vars

\* ------------------------------------------ setters, one native call a step
\* dcb::set_<field>(&mut dcb, value): the change a setter makes to its copy
dcb_set(d, field, value) ==
    CASE field = "baud_rate" -> dcb_set_baud_rate(d, value)
      [] field = "data_bits" -> dcb_set_data_bits(d, value)
      [] field = "parity" -> dcb_set_parity(d, value)
      [] field = "stop_bits" -> dcb_set_stop_bits(d, value)
      [] field = "flow_control" -> dcb_set_flow_control(d, value)

\* &mut self: a handle runs one call at a time
Idle(p) == IF calls[p] = None THEN TRUE ELSE Unwrap(calls[p]).state = "returned"

\* The records of the calls that have returned are kept until the next call
\* starts.
ForgetReturned(p, started) ==
    [q \in PortIds |-> IF q = p THEN started
                       ELSE IF calls[q] # None /\ Unwrap(calls[q]).state = "returned" THEN None
                       ELSE calls[q]]

\* What is kept of a call once it has returned: the setting and its value
Returned(c) == [op |-> c.op, field |-> c.field, value |-> c.value, state |-> "returned"]

\* First half of a setter on port p: `let mut dcb = dcb::get_dcb(self.handle)?`.
\* The copy read is local to the call.
SetterGetDcb(p, op, field, value, native_ok, code) ==
    /\ p \in LivePorts
    /\ Idle(p)
    /\ native_ok => CanSucceed(ports[p].handle)
    /\ IF native_ok
       THEN /\ calls' = ForgetReturned(p, Some([op |-> op, field |-> field, value |-> value,
                                                dcb |-> dcb, state |-> "read"]))
            /\ last' = last
       ELSE /\ calls' = ForgetReturned(p, None)
            /\ last' = Call(op, p, <<>>, "get_dcb", last_os_error(code))
    /\ UNCHANGED <<ports, life, origin, nextDesc, openHandles, closeCalls, rawHeld,
                   dcb, commTimeouts, pending>>

\* The second half with the block committed as it was read, the change to
\* the copy left out
SetterSetDcb_CommitsAsRead(p, native_ok, code) ==
    /\ p \in LivePorts
    /\ ~Idle(p)
    /\ native_ok => CanSucceed(ports[p].handle)
    /\ LET c == Unwrap(calls[p])
       IN  IF native_ok
           THEN /\ dcb' = c.dcb
                /\ calls' = [calls EXCEPT ![p] = Some(Returned(c))]
                /\ pending' = Some([field |-> c.field, value |-> c.value, port |-> p])
                /\ last' = Call(c.op, p, <<>>, "ok", Ok(<<>>))
           ELSE /\ calls' = [calls EXCEPT ![p] = None]
                /\ last' = Call(c.op, p, <<>>, "set_dcb", last_os_error(code))
                /\ UNCHANGED <<dcb, pending>>
    /\ UNCHANGED <<ports, life, origin, nextDesc, openHandles, closeCalls, rawHeld,
                   commTimeouts>>

\* Second half of the setter running on port p: dcb::set_<field>(&mut dcb, v)
\* on the copy, then dcb::set_dcb(self.handle, dcb) commits the whole copy.
SetterSetDcb(p, native_ok, code) ==
    /\ p \in LivePorts
    /\ ~Idle(p)
    /\ native_ok => CanSucceed(ports[p].handle)
    /\ LET c == Unwrap(calls[p])
       IN  IF native_ok
           THEN /\ dcb' = dcb_set(c.dcb, c.field, c.value)
                /\ calls' = [calls EXCEPT ![p] = Some(Returned(c))]
                /\ pending' = Some([field |-> c.field, value |-> c.value, port |-> p])
                /\ last' = Call(c.op, p, <<>>, "ok", Ok(<<>>))
           ELSE /\ calls' = [calls EXCEPT ![p] = None]
                /\ last' = Call(c.op, p, <<>>, "set_dcb", last_os_error(code))
                /\ UNCHANGED <<dcb, pending>>
    /\ UNCHANGED <<ports, life, origin, nextDesc, openHandles, closeCalls, rawHeld,
                   commTimeouts>>

\* The setters whose two native calls interleave with other handles' calls
SetterOps ==
    [baud_rate |-> "set_baud_rate", data_bits |-> "set_data_bits", parity |-> "set_parity",
     stop_bits |-> "set_stop_bits", flow_control |-> "set_flow_control"]

\* The concurrent calls explored: set_baud_rate and set_parity
ConcFields == {"baud_rate", "parity"}

\* Setters on the handles of one device running concurrently, each call a
\* read of the block and a commit; try_clone needs the handle between calls.
NextConc ==
    \/ \E b \in CfgBuilders, stage \in OpenStages, code \in CfgOsErrors : Open(b, stage, code)
    \/ \E p \in PortIds, dup_ok \in BOOLEAN, out \in FailedDuplicateOut, code \in CfgOsErrors :
          Idle(p) /\ TryClone(p, dup_ok, out, code)
    \/ \E p \in PortIds, field \in ConcFields, ok \in BOOLEAN, code \in CfgOsErrors :
          \E v \in SharedValues[field] : SetterGetDcb(p, SetterOps[field], field, v, ok, code)
    \/ \E p \in PortIds, ok \in BOOLEAN, code \in CfgOsErrors : SetterSetDcb(p, ok, code)

SpecConc == Init /\ [][NextConc]_vars


\* ======================================================================
\* Properties
\* ======================================================================

\* C1: every set_read_timeout / set_write_timeout call whose native
\* SetCommTimeouts fails returns an error and leaves both cached timeouts of
\* the handle as they were; when it succeeds the cache holds the requested
\* intent: the new value for the direction set, the previously cached value
\* for the other direction.
C1_SetTimeoutsCache ==
    [][last'.op \in {"set_read_timeout", "set_write_timeout"} =>
        LET p == last'.port
            requested == last'.arg
        IN  IF last'.native = "ok"
            THEN /\ last'.res.ok
                 /\ last'.op = "set_read_timeout" =>
                       /\ ports'[p].read_timeout = requested
                       /\ ports'[p].write_timeout = ports[p].write_timeout
                 /\ last'.op = "set_write_timeout" =>
                       /\ ports'[p].write_timeout = requested
                       /\ ports'[p].read_timeout = ports[p].read_timeout
            ELSE /\ ~last'.res.ok
                 /\ ports'[p].read_timeout = ports[p].read_timeout
                 /\ ports'[p].write_timeout = ports[p].write_timeout
      ]_vars

\* A timeout setter has just failed on a handle whose cache still holds a
\* duration in one direction and none in the other.
C1_Witness ==
    /\ last.op \in {"set_read_timeout", "set_write_timeout"}
    /\ ~last.res.ok
    /\ life[last.port] = "live"
    /\ IsSome(ports[last.port].read_timeout)
    /\ ports[last.port].write_timeout = None

\* C2: a set_read_timeout / set_write_timeout call on one handle changes the
\* cached read and write timeout of no other handle, clones included.
C2_OtherCacheUnchanged ==
    [][last'.op \in {"set_read_timeout", "set_write_timeout"} =>
        \A q \in LivePorts \ {last'.port} :
            /\ ports'[q].read_timeout = ports[q].read_timeout
            /\ ports'[q].write_timeout = ports[q].write_timeout
      ]_vars

\* A handle and its clone are both live, a timeout setter has just succeeded
\* on one of them, and their cached read timeouts differ.
C2_Witness ==
    /\ last.op = "set_read_timeout"
    /\ last.res.ok
    /\ \E q \in LivePorts :
          /\ q # last.port
          /\ last.port \in LivePorts
          /\ (origin[q] = last.port \/ origin[last.port] = q)
          /\ ports[q].read_timeout # ports[last.port].read_timeout


\* C3: when try_clone returns a handle, the new handle owns an open
\* descriptor that no other SerialPort value holds (so distinct from the
\* source's), its cached read timeout, write timeout and port name equal the
\* source's at the call, and the source's descriptor and cache are unchanged.
C3_CloneOwnsDistinctDescriptor ==
    [][last'.op = "try_clone" =>
       \A p \in PortIds, dup_ok \in BOOLEAN, out \in FailedDuplicateOut, code \in OsErrors :
        (TryClone(p, dup_ok, out, code) /\ last'.res.ok) =>
          LET n == last'.res.val IN
            /\ life'[n] = "live"
            /\ ports'[n].handle \in openHandles'
            /\ ports'[n].handle # ports[p].handle
            /\ \A q \in 1..Len(ports) : ports[q].handle # ports'[n].handle
            /\ ports'[n].read_timeout = ports[p].read_timeout
            /\ ports'[n].write_timeout = ports[p].write_timeout
            /\ ports'[n].port_name = ports[p].port_name
            /\ ports'[p] = ports[p]
            /\ life'[p] = "live"
            /\ (ports[p].handle \in openHandles) = (ports[p].handle \in openHandles')
      ]_vars

\* C4: dropping a handle closes its own descriptor and no other: every other
\* live handle, its clone or its source included, keeps its descriptor open
\* and its cache, in whichever order the handles are dropped.
C4_DropClosesOnlyOwn ==
    [][last'.op = "drop" =>
       \A p \in PortIds :
        Drop(p) =>
          /\ openHandles' = openHandles \ {ports[p].handle}
          /\ \A q \in LivePorts \ {p} :
                /\ life'[q] = "live"
                /\ ports'[q] = ports[q]
                /\ ports[q].handle \in openHandles => CanSucceed(ports[q].handle)'
      ]_vars

\* The source of a clone has been dropped and a timeout setter has succeeded
\* on the clone since.
C4_Witness ==
    /\ last.op \in {"set_read_timeout", "set_write_timeout"}
    /\ last.res.ok
    /\ last.port \in LivePorts
    /\ origin[last.port] # 0
    /\ life[origin[last.port]] = "dropped"

\* C5: every descriptor is closed at most once: CloseHandle has been called
\* on it once for each dropped SerialPort that held it and never otherwise,
\* so a descriptor still owned by a live handle, or released with
\* into_raw_handle and held raw by the caller, is open and was never closed.
C5_ClosedAtMostOnce ==
    \A d \in Descs :
        /\ closeCalls[d] <= 1
        /\ closeCalls[d] =
             Cardinality({ p \in 1..Len(ports) : life[p] = "dropped" /\ ports[p].handle = d })
        /\ d \in rawHeld => d \in openHandles /\ closeCalls[d] = 0
        /\ \A p \in LivePorts :
              ports[p].handle = d => d \in openHandles /\ closeCalls[d] = 0

\* One handle was dropped and its descriptor closed once; another gave its
\* descriptor away with into_raw_handle and that descriptor is still open.
C5_Witness ==
    /\ \E d \in Descs : closeCalls[d] = 1 /\ d \notin openHandles
    /\ \E p \in 1..Len(ports) :
          /\ life[p] = "forgotten"
          /\ ports[p].handle \in rawHeld
          /\ ports[p].handle \in openHandles

\* C6: read never returns Ok(0): a ReadFile that succeeds with zero bytes
\* transferred (an empty buffer included) gives TimedOut, one that succeeds
\* with n > 0 bytes gives Ok(n) with n at most the buffer length, and one
\* that fails gives the native error.
C6_ReadNeverOkZero ==
    [][last'.op = "read" =>
       \A p \in {last'.port}, buf_len \in 0..MaxBuf, ret \in {0, 1}, len \in 0..MaxBuf,
          code \in OsErrors :
        Read(p, buf_len, ret, len, code) =>
          /\ ~(last'.res.ok /\ last'.res.val = 0)
          /\ (ret # 0 /\ len = 0) => (~last'.res.ok /\ last'.res.kind = "TimedOut")
          /\ (ret # 0 /\ len > 0) =>
                (last'.res.ok /\ last'.res.val = len /\ last'.res.val <= buf_len)
          /\ ret = 0 => (~last'.res.ok /\ last'.res.kind = code)
      ]_vars

\* A read has just reported TimedOut although the native call succeeded.
C6_Witness ==
    /\ last.op = "read"
    /\ last.native = "ok"
    /\ ~last.res.ok
    /\ last.res.kind = "TimedOut"

\* C7: when open returns a handle, the device's control block decodes to the
\* builder's baud rate, data bits, parity, stop bits and flow control, the
\* device's timeouts and the handle's cached timeouts are the builder's, and
\* the port name is set; when any native call of open fails (committing the
\* block and applying the timeouts included) open returns an error and no
\* new live handle exists.
C7_OpenAppliesAll ==
    [][last'.op = "open" =>
       \A b \in Builders, stage \in OpenStages, code \in OsErrors :
        Open(b, stage, code) =>
          IF stage = "ok"
          THEN LET n == Len(ports') IN
                 /\ last'.res.ok /\ last'.res.val = n
                 /\ life'[n] = "live"
                 /\ dcb'.BaudRate = b.baud_rate
                 /\ data_bits(dcb') = Ok(b.data_bits)
                 /\ parity(dcb') = Ok(b.parity)
                 /\ stop_bits(dcb') = Ok(b.stop_bits)
                 /\ flow_control(dcb') = Ok(b.flow_control)
                 /\ commTimeouts' = COMMTIMEOUTS(b.read_timeout, b.write_timeout)
                 /\ ports'[n].read_timeout = b.read_timeout
                 /\ ports'[n].write_timeout = b.write_timeout
                 /\ ports'[n].port_name = Some(PortPath)
          ELSE /\ ~last'.res.ok
               /\ LivePorts' = LivePorts
      ]_vars

\* open has just returned a handle for the builder that asks for odd parity,
\* software flow control and a write timeout.
C7_Witness ==
    /\ last.op = "open"
    /\ last.res.ok
    /\ dcb.Parity = ODDPARITY
    /\ dcb.fOutX = 1
    /\ IsSome(ports[last.port].write_timeout)

\* C8: whenever DuplicateHandle reports failure, try_clone returns an error
\* and constructs no SerialPort; it returns a handle only when DuplicateHandle
\* succeeded.
C8_CloneFailsWhenDuplicateFails ==
    [][last'.op = "try_clone" =>
       \A p \in PortIds, dup_ok \in BOOLEAN, out \in FailedDuplicateOut, code \in OsErrors :
        TryClone(p, dup_ok, out, code) =>
          /\ ~dup_ok => (~last'.res.ok /\ Len(ports') = Len(ports))
          /\ last'.res.ok => dup_ok
      ]_vars


\* C9: round trip.  When a getter for data bits, parity, stop bits or flow
\* control reads the device after a successful set of that setting through
\* the same handle, with no other commit to the control block in between, it
\* returns exactly the value that was set, whatever the block held before.
C9_RoundTrip ==
    (/\ pending # None
     /\ last.op \in {"data_bits", "parity", "stop_bits", "flow_control"}
     /\ last.op = Unwrap(pending).field
     /\ last.port = Unwrap(pending).port
     /\ last.native = "ok")
    => (last.res.ok /\ last.res.val = Unwrap(pending).value)

\* flow_control has just returned Software after set_flow_control(Software)
\* on a device whose byte size and stop bits are not ones this library writes.
C9_Witness ==
    /\ pending # None
    /\ Unwrap(pending).field = "flow_control"
    /\ Unwrap(pending).value = "Software"
    /\ last.op = "flow_control"
    /\ last.port = Unwrap(pending).port
    /\ last.res.ok
    /\ last.res.val = "Software"
    /\ dcb.ByteSize = 9
    /\ dcb.StopBits = 1

\* C10: data_bits, parity and stop_bits never guess: when the block was read
\* and the field holds no encoding of a supported value (a byte size outside
\* 5..8, a parity code other than none/odd/even, a stop-bits code other than
\* one/two) the getter returns an error of kind Unknown, never a value.
\* (A getter leaves the block as it read it, so the state after the call
\* still shows the field the getter decoded.)
C10_GettersNeverGuess ==
    last.native = "ok" =>
      /\ last.op = "data_bits" =>
           IF dcb.ByteSize \in 5..8 THEN last.res.ok
           ELSE ~last.res.ok /\ last.res.kind = "Unknown"
      /\ last.op = "parity" =>
           IF dcb.Parity \in {NOPARITY, ODDPARITY, EVENPARITY} THEN last.res.ok
           ELSE ~last.res.ok /\ last.res.kind = "Unknown"
      /\ last.op = "stop_bits" =>
           IF dcb.StopBits \in {ONESTOPBIT, TWOSTOPBITS} THEN last.res.ok
           ELSE ~last.res.ok /\ last.res.kind = "Unknown"

\* stop_bits has just returned Unknown for the code of 1.5 stop bits.
C10_Witness ==
    /\ last.op = "stop_bits"
    /\ last.native = "ok"
    /\ ~last.res.ok
    /\ last.res.kind = "Unknown"
    /\ dcb.StopBits = 1

\* C11: flow_control decodes the flags in a fixed priority.  When the block
\* was read it returns Hardware if the CTS output flow flag or the RTS control
\* field is non-zero, whatever the XON/XOFF flags hold; otherwise Software if
\* the output or the input XON/XOFF flag is set; otherwise None.  (The getter
\* leaves the block as it read it.)
C11_FlowControlPriority ==
    (last.op = "flow_control" /\ last.native = "ok") =>
      /\ last.res.ok
      /\ LET hardware == dcb.fOutxCtsFlow # 0 \/ dcb.fRtsControl # 0
             software == dcb.fOutX # 0 \/ dcb.fInX # 0
         IN  /\ hardware => last.res.val = "Hardware"
             /\ (~hardware /\ software) => last.res.val = "Software"
             /\ (~hardware /\ ~software) => last.res.val = "None"

\* flow_control has just returned Hardware for a block in which only the RTS
\* control field asks for handshake and both XON/XOFF flags are set as well.
C11_Witness ==
    /\ last.op = "flow_control"
    /\ last.native = "ok"
    /\ last.res.ok
    /\ last.res.val = "Hardware"
    /\ dcb.fOutxCtsFlow = 0
    /\ dcb.fRtsControl = 2
    /\ dcb.fOutX = 1
    /\ dcb.fInX = 1

\* The whole seconds and the remaining milliseconds of a DWORD count of
\* milliseconds, by long division of its two halves by 1000.
C12_SecsAndMillis(v) ==
    LET r == (v.hi % 1000) * 65536 + v.lo
    IN  <<(v.hi \div 1000) * 65536 + r \div 1000, r % 1000>>

\* v is the native constant the intent converts to.
C12_Converted(intent, v) ==
    IF intent = None THEN v = DWord(0)
    ELSE LET d == Unwrap(intent)
             ms == d.nanos \div 1000000
         IN  /\ v # DWord(0)
             /\ IF d.secs > 4294967 \/ (d.secs = 4294967 /\ ms > 295)
                THEN v = DWORD_MAX
                ELSE IF d.secs = 0 /\ ms = 0
                THEN v = DWord(1)
                ELSE C12_SecsAndMillis(v) = <<d.secs, ms>>

\* C12: after every successful set_timeouts (from open, set_read_timeout or
\* set_write_timeout) the device's read interval timeout is 1, both total
\* timeout multipliers are 0, and each total timeout constant is the
\* conversion of that direction's intent: 0 for None; for Some(d) the whole
\* milliseconds of d, 1 when that is 0 and 2^32 - 1 when it does not fit in
\* 32 bits, so never 0.  The intent of the direction a setter sets is its
\* argument, the other direction's is the value the handle had cached; open's
\* are the builder's, which the new handle caches.
C12_TimeoutConversion ==
    [][(last'.op \in {"open", "set_read_timeout", "set_write_timeout"} /\ last'.res.ok) =>
        LET p == last'.port
            rt == CASE last'.op = "set_read_timeout"  -> last'.arg
                    [] last'.op = "set_write_timeout" -> ports[p].read_timeout
                    [] OTHER -> ports'[p].read_timeout
            wt == CASE last'.op = "set_write_timeout" -> last'.arg
                    [] last'.op = "set_read_timeout"  -> ports[p].write_timeout
                    [] OTHER -> ports'[p].write_timeout
        IN  /\ commTimeouts'.ReadIntervalTimeout = DWord(1)
            /\ commTimeouts'.ReadTotalTimeoutMultiplier = DWord(0)
            /\ commTimeouts'.WriteTotalTimeoutMultiplier = DWord(0)
            /\ C12_Converted(rt, commTimeouts'.ReadTotalTimeoutConstant)
            /\ C12_Converted(wt, commTimeouts'.WriteTotalTimeoutConstant)
      ]_vars

\* set_read_timeout(Some(999999 ns)) has just succeeded on a handle whose
\* cached write timeout is one millisecond past 2^32 - 1 ms: the device holds
\* 1 for reads and 2^32 - 1 for writes.
C12_Witness ==
    /\ last.op = "set_read_timeout"
    /\ last.res.ok
    /\ last.arg = Some(Duration(0, 999999))
    /\ ports[last.port].write_timeout = Some(Duration(4294967, 296000000))
    /\ commTimeouts.ReadTotalTimeoutConstant = DWord(1)
    /\ commTimeouts.WriteTotalTimeoutConstant = DWORD_MAX

\* C13: the handle from_raw_handle creates holds the descriptor it was given
\* and reports read_timeout None, write_timeout None and no port name,
\* whatever timeouts the device has; adopting makes no native call: the
\* device's timeouts, its control block and the open descriptors are as
\* before, and nothing is closed.
C13_AdoptedReportsNone ==
    [][last'.op = "from_raw_handle" =>
        LET n == last'.port
        IN  /\ n = Len(ports) + 1
            /\ Len(ports') = n
            /\ life'[n] = "live"
            /\ ports'[n].handle \in rawHeld
            /\ ports'[n].read_timeout = None
            /\ ports'[n].write_timeout = None
            /\ ports'[n].port_name = None
            /\ last'.native = "ok"
            /\ commTimeouts' = commTimeouts
            /\ dcb' = dcb
            /\ openHandles' = openHandles
            /\ closeCalls' = closeCalls
      ]_vars

\* A descriptor whose device has a read timeout of 2 ms and no write timeout
\* has just been adopted: the new handle reports None for both.
C13_Witness ==
    /\ last.op = "from_raw_handle"
    /\ commTimeouts.ReadTotalTimeoutConstant = DWord(2)
    /\ commTimeouts.WriteTotalTimeoutConstant = DWord(0)
    /\ ports[last.port].read_timeout = None
    /\ ports[last.port].write_timeout = None
    /\ ports[last.port].handle \in openHandles

\* C14: write returns Ok(n), n the byte count WriteFile accepted, whenever
\* WriteFile succeeds, for every n from 0 to the buffer length: a short
\* write, one of zero bytes included, is success and never an error; write
\* returns an error exactly when WriteFile fails, and then the native error.
C14_WriteShortIsOk ==
    [][last'.op = "write" =>
       \A p \in {last'.port}, buf_len \in 0..MaxBuf, ret \in {0, 1}, len \in 0..MaxBuf,
          code \in OsErrors :
        Write(p, buf_len, ret, len, code) =>
          /\ ret # 0 => (last'.res.ok /\ last'.res.val = len /\ last'.res.val <= buf_len)
          /\ ret = 0 => (~last'.res.ok /\ last'.res.kind = code)
          /\ last'.res.ok <=> ret # 0
      ]_vars

\* write has just returned Ok(0) for a buffer that was not empty.
C14_Witness ==
    /\ last.op = "write"
    /\ last.native = "ok"
    /\ last.res.ok
    /\ last.res.val = 0
    /\ last.arg = <<MaxBuf>>

\* C15: the five settings are not cached per handle.  After any sequence of
\* setter calls through any of the handles on the device, a getter that read
\* the block through one handle and the same getter that reads it next
\* through another handle return the same result.
C15_SameViewThroughBothHandles ==
    [][(/\ last.op \in {"baud_rate", "data_bits", "parity", "stop_bits", "flow_control"}
        /\ last'.op = last.op
        /\ last.native = "ok"
        /\ last'.native = "ok"
        /\ last'.port # last.port)
       => last'.res = last.res
      ]_vars

\* parity was set to Odd through a handle and has just been read as Odd
\* through its clone.
C15_Witness ==
    /\ pending # None
    /\ Unwrap(pending).field = "parity"
    /\ Unwrap(pending).value = "Odd"
    /\ last.op = "parity"
    /\ last.native = "ok"
    /\ last.res.ok
    /\ last.res.val = "Odd"
    /\ last.port # Unwrap(pending).port
    /\ origin[last.port] = Unwrap(pending).port

\* C16: open leaks no descriptor.  Every open descriptor is owned: a live
\* handle holds it, or the caller holds it raw after into_raw_handle; so when
\* open returns an error after CreateFileW succeeded (get_dcb, set_dcb or
\* SetCommTimeouts failed) the descriptor it acquired has been closed.
C16_NoDescriptorLeak ==
    \A d \in openHandles :
        \/ d \in rawHeld
        \/ \E p \in LivePorts : ports[p].handle = d

\* C18 as claimed: a successful set_read_timeout leaves the device's write
\* total timeout constant as it was, and a successful set_write_timeout
\* leaves the read total timeout constant as it was, on every handle.
C18_OtherDirectionUntouched ==
    [][/\ (last'.op = "set_read_timeout" /\ last'.res.ok) =>
            commTimeouts'.WriteTotalTimeoutConstant = commTimeouts.WriteTotalTimeoutConstant
       /\ (last'.op = "set_write_timeout" /\ last'.res.ok) =>
            commTimeouts'.ReadTotalTimeoutConstant = commTimeouts.ReadTotalTimeoutConstant
      ]_vars

\* C18 amended: a successful set_read_timeout rewrites the device's write
\* total timeout constant from the write timeout the handle has cached (0 for
\* None), so that constant is as before exactly when it already agreed with
\* the handle's cache; symmetrically for set_write_timeout and the read
\* constant.  A call that fails leaves the device's timeouts as they were.
C18_OtherDirectionFromCache ==
    [][last'.op \in {"set_read_timeout", "set_write_timeout"} =>
        LET p == last'.port
            W == commTimeouts.WriteTotalTimeoutConstant
            R == commTimeouts.ReadTotalTimeoutConstant
        IN  IF ~last'.res.ok THEN commTimeouts' = commTimeouts
            ELSE IF last'.op = "set_read_timeout"
            THEN /\ C12_Converted(ports[p].write_timeout, commTimeouts'.WriteTotalTimeoutConstant)
                 /\ C12_Converted(ports[p].write_timeout, W)
                       <=> commTimeouts'.WriteTotalTimeoutConstant = W
            ELSE /\ C12_Converted(ports[p].read_timeout, commTimeouts'.ReadTotalTimeoutConstant)
                 /\ C12_Converted(ports[p].read_timeout, R)
                       <=> commTimeouts'.ReadTotalTimeoutConstant = R
      ]_vars

\* set_read_timeout has just succeeded on a handle that caches no write
\* timeout while another live handle caches one: the device's write constant
\* is 0, the conversion of the calling handle's cache.
C18_Witness ==
    /\ last.op = "set_read_timeout"
    /\ last.res.ok
    /\ last.port \in LivePorts
    /\ ports[last.port].write_timeout = None
    /\ commTimeouts.WriteTotalTimeoutConstant = DWord(0)
    /\ \E q \in LivePorts \ {last.port} : IsSome(ports[q].write_timeout)

\* The setting `field` of block d decodes to value.
C17_Holds(d, field, value) ==
    CASE field = "baud_rate" -> baud_rate(d) = Ok(value)
      [] field = "data_bits" -> data_bits(d) = Ok(value)
      [] field = "parity" -> parity(d) = Ok(value)
      [] field = "stop_bits" -> stop_bits(d) = Ok(value)
      [] field = "flow_control" -> flow_control(d) = Ok(value)

\* The native fields of the control block that make up each setting
C17_NativeFields ==
    [baud_rate |-> {"BaudRate"}, data_bits |-> {"ByteSize"}, parity |-> {"Parity"},
     stop_bits |-> {"StopBits"},
     flow_control |-> {"fOutxCtsFlow", "fRtsControl", "fOutX", "fInX"}]

\* The setter call on port p has returned successfully.
C17_HasReturned(c) == IF c = None THEN FALSE ELSE Unwrap(c).state = "returned"

\* C17 as claimed: no lost update.  When setter calls for different settings
\* on two handles of the device overlap and both have returned successfully,
\* the device holds both new values.
C17_NoLostUpdate ==
    \A p \in LivePorts, q \in LivePorts :
        IF p # q /\ C17_HasReturned(calls[p]) /\ C17_HasReturned(calls[q])
        THEN LET a == Unwrap(calls[p])
                 b == Unwrap(calls[q])
             IN  a.field # b.field =>
                    /\ C17_Holds(dcb, a.field, a.value)
                    /\ C17_Holds(dcb, b.field, b.value)
        ELSE TRUE

\* C17 amended: the last commit wins.  A setter's successful commit leaves
\* the device holding the call's new value and, in every other setting, the
\* block the call read at its start; so the new value of an overlapping call
\* on another handle that has returned survives the commit exactly when the
\* block this call read already held it, and is overwritten (lost) when this
\* call read the block before the other call committed.
C17_LastCommitWins ==
    [][\A p \in PortIds :
         (~Idle(p) /\ C17_HasReturned(calls'[p])) =>
           LET c == Unwrap(calls[p])
           IN  /\ C17_Holds(dcb', c.field, c.value)
               /\ \A n \in (DOMAIN dcb) \ C17_NativeFields[c.field] : dcb'[n] = c.dcb[n]
               /\ \A q \in PortIds \ {p} :
                     C17_HasReturned(calls'[q]) =>
                       LET b == Unwrap(calls'[q])
                       IN  b.field # c.field =>
                             (C17_Holds(dcb', b.field, b.value)
                                <=> C17_Holds(c.dcb, b.field, b.value))
      ]_vars

\* set_baud_rate(9600) on the first handle and set_parity(Odd) on its clone
\* have both returned successfully and the device still runs at 115200 baud:
\* the clone read the block before the first handle committed.
C17_Witness ==
    /\ C17_HasReturned(calls[1])
    /\ C17_HasReturned(calls[2])
    /\ Unwrap(calls[1]).field = "baud_rate"
    /\ Unwrap(calls[1]).value = 9600
    /\ Unwrap(calls[2]).field = "parity"
    /\ Unwrap(calls[2]).value = "Odd"
    /\ dcb.Parity = ODDPARITY
    /\ dcb.BaudRate = 115200

====
